---- MODULE Spec2Model ----
(***************************************************************************)
(* Model of lib/sqlalchemy/dialects/sqlite/dml.py: the SQLite INSERT       *)
(* builder with its ON CONFLICT DO NOTHING / DO UPDATE clauses and the     *)
(* memoized "excluded" namespace.                                          *)
(*                                                                         *)
(* Python objects live on a heap: `builders` is the sequence of Insert     *)
(* objects ever returned to a caller, an object's identity is its index.   *)
(* An optional value is None (the empty tuple) or Some(x) (a 1-tuple).     *)
(* An object's attributes are the fields of a record, so an attribute      *)
(* that was never assigned is a field that is not in the record's DOMAIN.  *)
(***************************************************************************)
EXTENDS Integers, Sequences, FiniteSets, TLC

VARIABLES
    builders,   \* heap of Insert objects: [table, post_values_clause, excluded]
    origin,     \* history: how each builder was produced (factory or generative call)
    last,       \* history: the most recent generative call and its outcome
    call,       \* the arguments under test (drawn in InitArgs)
    reads,      \* history, per builder: what reads of .excluded computed and returned
    threads,    \* per thread: position inside a read of .excluded
    lock        \* per builder: thread holding the memoization cell's lock, 0 if free

vars == <<builders, origin, last, call, reads, threads, lock>>

----------------------------------------------------------------------------
\* Bounds of the model.
MaxBuilders == 3
MaxAliases == 3
MaxThreads == 2
MaxSetLen == 2
MaxIndexElements == 2

----------------------------------------------------------------------------
\* Python values.
None == <<>>
Some(x) == <<x>>

Tables == {"T", "U"}
Columns == <<"id", "name", "count">>
ColumnNames == {Columns[i] : i \in 1..Len(Columns)}

\* A SET key: a column name given as a string, or a Column object.
StrKey(n) == [kind |-> "str", name |-> n]
ColumnKey(n) == [kind |-> "column", name |-> n]

\* The set_ argument: its Python type and, for containers, its items in
\* insertion order (pairs <<key, value>>, keys distinct).
SetArg(t, items) == [type |-> t, items |-> items]
NoSet == SetArg("NoneType", <<>>)

Args(ie, iw, s, w) == [index_elements |-> ie, index_where |-> iw, set_ |-> s, where |-> w]
NoArgs == Args(None, None, NoSet, None)

----------------------------------------------------------------------------
\* sqlalchemy.sql.coercions.expect(roles.DMLColumnRole, key): the canonical
\* column reference of a key; raises for a key that names no column.
Resolvable(key) == key.name \in ColumnNames

expect(key) == [column |-> key.name]

----------------------------------------------------------------------------
\* OnConflictClause.__init__
OnConflictClause_swapped(index_elements, index_where) ==
    IF index_elements # None
    THEN [constraint_target |-> index_elements,
          inferred_target_elements |-> None,
          inferred_target_whereclause |-> index_where]
    ELSE [constraint_target |-> None,
          inferred_target_elements |-> None,
          inferred_target_whereclause |-> None]

OnConflictClause_keeps_where(index_elements, index_where) ==
    [constraint_target |-> None,
     inferred_target_elements |-> index_elements,
     inferred_target_whereclause |-> index_where]

OnConflictClause(index_elements, index_where) ==
    IF index_elements # None
    THEN [constraint_target |-> None,
          inferred_target_elements |-> index_elements,
          inferred_target_whereclause |-> index_where]
    ELSE [constraint_target |-> None,
          inferred_target_elements |-> None,
          inferred_target_whereclause |-> None]

\* class OnConflictDoNothing(OnConflictClause)
OnConflictDoNothing(index_elements, index_where) ==
    [visit_name |-> "on_conflict_do_nothing"]
        @@ OnConflictClause(index_elements, index_where)

\* isinstance(set_, dict)
isinstance_dict(set_) == set_.type = "dict"

\* the list comprehension over set_.items()
update_values_sorted(items) ==
    LET pos(k) == CHOOSE c \in 1..Len(Columns) : Columns[c] = k.name
        before(i, j) == \/ pos(items[i][1]) < pos(items[j][1])
                        \/ pos(items[i][1]) = pos(items[j][1]) /\ i < j
        rank(i) == 1 + Cardinality({j \in 1..Len(items) : before(j, i)})
    IN  [r \in 1..Len(items) |->
            LET i == CHOOSE x \in 1..Len(items) : rank(x) = r
            IN  <<expect(items[i][1]), items[i][2]>>]

update_values(items) ==
    [i \in 1..Len(items) |-> <<expect(items[i][1]), items[i][2]>>]

\* OnConflictDoUpdate.__init__: the outcome is the exception raised ("" if
\* none) and the object as far as it was built.
OnConflictDoUpdate_no_isinstance(index_elements, index_where, set_, where) ==
    LET self == [visit_name |-> "on_conflict_do_update"]
                    @@ OnConflictClause(index_elements, index_where)
    IN  IF set_.items = <<>>
        THEN [raised |-> "ValueError", obj |-> self]
        ELSE IF \E i \in 1..Len(set_.items) : ~Resolvable(set_.items[i][1])
        THEN [raised |-> "ArgumentError", obj |-> self]
        ELSE [raised |-> "",
              obj |-> self @@ [update_values_to_set |-> update_values(set_.items),
                               update_whereclause |-> where]]

OnConflictDoUpdate_skips_unresolved(index_elements, index_where, set_, where) ==
    LET self == [visit_name |-> "on_conflict_do_update"]
                    @@ OnConflictClause(index_elements, index_where)
    IN  IF ~isinstance_dict(set_) \/ set_.items = <<>>
        THEN [raised |-> "ValueError", obj |-> self]
        ELSE [raised |-> "",
              obj |-> self @@ [update_values_to_set |->
                                  update_values(SelectSeq(set_.items,
                                      LAMBDA kv : Resolvable(kv[1]))),
                               update_whereclause |-> where]]

OnConflictDoUpdate(index_elements, index_where, set_, where) ==
    LET self == [visit_name |-> "on_conflict_do_update"]
                    @@ OnConflictClause(index_elements, index_where)
    IN  IF ~isinstance_dict(set_) \/ set_.items = <<>>
        THEN [raised |-> "ValueError", obj |-> self]
        ELSE IF \E i \in 1..Len(set_.items) : ~Resolvable(set_.items[i][1])
        THEN [raised |-> "ArgumentError", obj |-> self]
        ELSE [raised |-> "",
              obj |-> self @@ [update_values_to_set |-> update_values(set_.items),
                               update_whereclause |-> where]]

----------------------------------------------------------------------------
\* insert = public_factory(Insert, ...): a builder bound to a table, with no
\* post-values clause and nothing memoized.
insert(table) == [table |-> table, post_values_clause |-> None, excluded |-> None]

\* Generative._generate: a shallow copy of the receiver as a new object.
generate(heap, self) == [heap |-> Append(heap, heap[self]), self |-> Len(heap) + 1]

\* The body of Insert.on_conflict_do_nothing, run on the copy.
on_conflict_do_nothing_merges(heap, self, index_elements, index_where) ==
    LET new == OnConflictDoNothing(index_elements, index_where)
        old == heap[self].post_values_clause
        obj == IF old = None \/ index_elements # None THEN new ELSE new @@ old[1]
    IN  [raised |-> "", heap |-> [heap EXCEPT ![self].post_values_clause = Some(obj)]]

on_conflict_do_nothing(heap, self, index_elements, index_where) ==
    [raised |-> "",
     heap |-> [heap EXCEPT ![self].post_values_clause =
                              Some(OnConflictDoNothing(index_elements, index_where))]]

\* The body of Insert.on_conflict_do_update, run on the copy.
on_conflict_do_update_unassigned(heap, self, index_elements, index_where, set_, where) ==
    LET c == OnConflictDoUpdate(index_elements, index_where, set_, where)
    IN  [raised |-> c.raised, heap |-> heap]

on_conflict_do_update(heap, self, index_elements, index_where, set_, where) ==
    LET c == OnConflictDoUpdate(index_elements, index_where, set_, where)
    IN  IF c.raised # ""
        THEN [raised |-> c.raised, heap |-> heap]
        ELSE [raised |-> "",
              heap |-> [heap EXCEPT ![self].post_values_clause = Some(c.obj)]]

\* The @_generative wrapper: the copy is returned when the body returns; an
\* exception of the body propagates and the copy is dropped.
generative(heap, copy, r) ==
    IF r.raised = ""
    THEN [raised |-> "", heap |-> r.heap, ret |-> copy.self]
    ELSE [raised |-> r.raised, heap |-> heap, ret |-> 0]

----------------------------------------------------------------------------
\* Insert.excluded: alias(self.table, name="excluded").columns, the column
\* namespace of a new alias object (identified by `id`).
excluded_fget_anonymous(heap, self, id) ==
    [table |-> heap[self].table, name |-> "anon", id |-> id]

excluded_fget(heap, self, id) ==
    [table |-> heap[self].table, name |-> "excluded", id |-> id]

\* util.memoized_property: whether the value is already cached on the instance.
memoized_hit_never(cache) == FALSE

memoized_hit(cache) == cache # None

----------------------------------------------------------------------------
\* History records.
NoLast == [op |-> "", recv |-> 0, args |-> NoArgs, raised |-> "", ret |-> 0,
           pre |-> None, n |-> 0]

NoReads == [computed |-> 0, seen |-> {}, count |-> 0]

Origin(op, parent, args, pre, nreads) ==
    [op |-> op, parent |-> parent, args |-> args, pre |-> pre, nreads |-> nreads]

ThreadIds == 1..MaxThreads
Idle == [pc |-> "idle", obj |-> 0, val |-> None, raced |-> FALSE]

\* What a generative call leaves behind: the heap after it, and the histories.
Returned(op, self, a, g) ==
    /\ builders' = g.heap
    /\ last' = [op |-> op, recv |-> self, args |-> a, raised |-> g.raised,
                ret |-> g.ret, pre |-> builders[self].post_values_clause,
                n |-> Len(builders)]
    /\ IF Len(g.heap) > Len(builders)
       THEN /\ origin' = Append(origin,
                    Origin(op, self, a, builders[self].post_values_clause,
                           reads[self].count))
            /\ reads' = Append(reads, NoReads)
            /\ lock' = Append(lock, 0)
       ELSE UNCHANGED <<origin, reads, lock>>
    /\ UNCHANGED <<call, threads>>

----------------------------------------------------------------------------
\* Operations.

\* insert(table)
InsertCall(t) ==
    /\ Len(builders) < MaxBuilders
    /\ builders' = Append(builders, insert(t))
    /\ origin' = Append(origin, Origin("insert", 0, NoArgs, None, 0))
    /\ reads' = Append(reads, NoReads)
    /\ lock' = Append(lock, 0)
    /\ last' = NoLast
    /\ UNCHANGED <<call, threads>>

\* builders[self].on_conflict_do_nothing(index_elements, index_where)
DoNothingCall(self, a) ==
    /\ Len(builders) < MaxBuilders
    /\ LET copy == generate(builders, self)
           r == on_conflict_do_nothing(copy.heap, copy.self,
                                       a.index_elements, a.index_where)
       IN  Returned("on_conflict_do_nothing", self, a, generative(builders, copy, r))

\* builders[self].on_conflict_do_update(index_elements, index_where, set_, where)
DoUpdateCall(self, a) ==
    /\ Len(builders) < MaxBuilders
    /\ LET copy == generate(builders, self)
           r == on_conflict_do_update(copy.heap, copy.self, a.index_elements,
                                      a.index_where, a.set_, a.where)
       IN  Returned("on_conflict_do_update", self, a, generative(builders, copy, r))

\* The identity of the next alias object built for builders[self].
NewAlias(self) == <<self, reads[self].computed + 1>>

\* One read of builders[self].excluded by a single caller.
Observe(self, ns, computed) ==
    reads' = [reads EXCEPT ![self] =
                [computed |-> @.computed + (IF computed THEN 1 ELSE 0),
                 seen |-> @.seen \cup {ns},
                 count |-> IF @.count < 2 THEN @.count + 1 ELSE 2]]

ReadExcluded(self) ==
    /\ IF memoized_hit(builders[self].excluded)
       THEN /\ Observe(self, builders[self].excluded[1], FALSE)
            /\ UNCHANGED builders
       ELSE /\ reads[self].computed < MaxAliases
            /\ LET ns == excluded_fget(builders, self, NewAlias(self))
               IN  /\ builders' = [builders EXCEPT ![self].excluded = Some(ns)]
                   /\ Observe(self, ns, TRUE)
    /\ last' = NoLast
    /\ UNCHANGED <<origin, call, threads, lock>>

----------------------------------------------------------------------------
\* A read of builders[b].excluded by thread t, step by step: the memoization
\* cell is checked, and on a miss the value is computed and stored under the
\* cell's lock after a second check.
TBegin(t, b) ==
    /\ threads[t].pc = "idle"
    /\ threads' = [threads EXCEPT ![t] = [pc |-> "check", obj |-> b, val |-> None,
                                          raced |-> FALSE]]
    /\ UNCHANGED <<builders, origin, last, call, reads, lock>>

TCheck(t) ==
    /\ threads[t].pc = "check"
    /\ LET b == threads[t].obj
       IN  IF memoized_hit(builders[b].excluded)
           THEN /\ threads' = [threads EXCEPT ![t].pc = "idle",
                                              ![t].val = builders[b].excluded]
                /\ Observe(b, builders[b].excluded[1], FALSE)
           ELSE /\ threads' = [threads EXCEPT ![t].pc = "lock", ![t].raced = TRUE]
                /\ UNCHANGED reads
    /\ UNCHANGED <<builders, origin, last, call, lock>>

TLock(t) ==
    /\ threads[t].pc = "lock"
    /\ lock[threads[t].obj] = 0
    /\ lock' = [lock EXCEPT ![threads[t].obj] = t]
    /\ threads' = [threads EXCEPT ![t].pc = "compute"]
    /\ UNCHANGED <<builders, origin, last, call, reads>>

TCompute(t) ==
    /\ threads[t].pc = "compute"
    /\ LET b == threads[t].obj
       IN  /\ IF memoized_hit(builders[b].excluded)
              THEN /\ threads' = [threads EXCEPT ![t].pc = "idle",
                                                 ![t].val = builders[b].excluded]
                   /\ Observe(b, builders[b].excluded[1], FALSE)
                   /\ UNCHANGED builders
              ELSE /\ reads[b].computed < MaxAliases
                   /\ LET ns == excluded_fget(builders, b, NewAlias(b))
                      IN  /\ builders' = [builders EXCEPT ![b].excluded = Some(ns)]
                          /\ threads' = [threads EXCEPT ![t].pc = "idle",
                                                        ![t].val = Some(ns)]
                          /\ Observe(b, ns, TRUE)
           /\ lock' = [lock EXCEPT ![b] = 0]
    /\ UNCHANGED <<origin, last, call>>

----------------------------------------------------------------------------
\* Inputs.

\* Arguments of the calls made on chains of builders.
NothingSamples ==
    { Args(None, None, NoSet, None),
      Args(None, Some("w"), NoSet, None),
      Args(Some(<<"id">>), None, NoSet, None),
      Args(Some(<<"id", "name">>), Some("w"), NoSet, None) }

UpdateSamples ==
    { Args(Some(<<"id">>), None,
           SetArg("dict", << <<StrKey("count"), "T.count + 1">> >>), None),
      Args(None, None,
           SetArg("dict", << <<StrKey("name"), "2">>, <<StrKey("id"), "1">> >>), Some("p")),
      Args(Some(<<"id", "name">>), Some("w"),
           SetArg("dict", << <<ColumnKey("count"), "1">> >>), Some("p")),
      Args(None, None, NoSet, None),
      Args(Some(<<"id">>), None, SetArg("dict", <<>>), None),
      Args(None, None, SetArg("mapping", << <<StrKey("count"), "1">> >>), None),
      Args(None, Some("w"), SetArg("list", << <<StrKey("count"), "1">> >>), None),
      Args(Some(<<"id">>), Some("w"),
           SetArg("dict", << <<StrKey("count"), "1">>, <<StrKey("zz"), "2">> >>),
           Some("p")),
      Args(None, None,
           SetArg("dict", << <<StrKey("zz"), "1">>, <<StrKey("count"), "2">> >>), None) }

\* The calls made between reads of .excluded.
ExcludedNothingSamples == { Args(Some(<<"id">>), None, NoSet, None) }

ExcludedUpdateSamples ==
    { Args(Some(<<"id">>), None,
           SetArg("dict", << <<StrKey("count"), "T.count + 1">> >>), None),
      Args(None, None, NoSet, None) }

\* All arguments up to the bounds, for one call on a fresh builder.
Keys == {StrKey("id"), StrKey("count"), ColumnKey("count"), StrKey("zz")}
Values == {"1", "T.count + 1"}

ItemSeqs ==
    UNION { { s \in [1..n -> Keys \X Values] :
                \A i, j \in 1..n : i # j => s[i][1] # s[j][1] } : n \in 0..MaxSetLen }

SetArgs ==
    {NoSet} \cup { SetArg(t, s) : t \in {"dict", "mapping", "list"}, s \in ItemSeqs }

IndexElementsArgs ==
    {None} \cup { Some(s) : s \in UNION { [1..n -> {"id", "name"}] : n \in 0..MaxIndexElements } }

ArgSpace ==
    { Args(ie, iw, s, w) : ie \in IndexElementsArgs, iw \in {None, Some("w")},
                           s \in SetArgs, w \in {None, Some("p")} }

----------------------------------------------------------------------------
\* Specifications.

InitWith(t, a) ==
    /\ builders = <<insert(t)>>
    /\ origin = <<Origin("insert", 0, NoArgs, None, 0)>>
    /\ last = NoLast
    /\ call = a
    /\ reads = <<NoReads>>
    /\ threads = [t2 \in ThreadIds |-> Idle]
    /\ lock = <<0>>

Init == \E t \in Tables : InitWith(t, NoArgs)

\* Chains of generative calls.
Insert == \E t \in Tables : InsertCall(t)
DoNothing == \E b \in 1..Len(builders) : \E a \in NothingSamples : DoNothingCall(b, a)
DoUpdate == \E b \in 1..Len(builders) : \E a \in UpdateSamples : DoUpdateCall(b, a)

Next == Insert \/ DoNothing \/ DoUpdate

Spec == Init /\ [][Next]_vars

\* One call, with every argument up to the bounds, on a fresh builder.
InitArgs == \E a \in ArgSpace : InitWith("T", a)

ApplyDoNothing ==
    /\ last.op = ""
    /\ call.set_ = NoSet
    /\ call.where = None
    /\ DoNothingCall(1, call)

ApplyDoUpdate ==
    /\ last.op = ""
    /\ DoUpdateCall(1, call)

NextArgs == ApplyDoNothing \/ ApplyDoUpdate

SpecArgs == InitArgs /\ [][NextArgs]_vars

\* Reads of .excluded by one caller, between generative calls.
Read == \E b \in 1..Len(builders) : ReadExcluded(b)
DeriveNothing ==
    \E b \in 1..Len(builders) : \E a \in ExcludedNothingSamples : DoNothingCall(b, a)
DeriveUpdate ==
    \E b \in 1..Len(builders) : \E a \in ExcludedUpdateSamples : DoUpdateCall(b, a)

NextExcluded == Insert \/ DeriveNothing \/ DeriveUpdate \/ Read

SpecExcluded == Init /\ [][NextExcluded]_vars

\* Reads of .excluded by several threads.
Begin == \E t \in ThreadIds : \E b \in 1..Len(builders) : TBegin(t, b)
Check == \E t \in ThreadIds : TCheck(t)
Lock == \E t \in ThreadIds : TLock(t)
Compute == \E t \in ThreadIds : TCompute(t)

InitThreads == InitWith("T", NoArgs)
InsertSame == InsertCall("T")

NextThreads == InsertSame \/ Begin \/ Check \/ Lock \/ Compute

SpecThreads == InitThreads /\ [][NextThreads]_vars

----------------------------------------------------------------------------
\* Properties.

Refs == 1..Len(builders)
Derived(i) == origin[i].op # "insert"
Clause(i) == builders[i].post_values_clause
TargetFields == {"visit_name", "constraint_target", "inferred_target_elements",
                 "inferred_target_whereclause"}
UpdateFields == TargetFields \cup {"update_values_to_set", "update_whereclause"}
AllResolve(items) == \A k \in 1..Len(items) : Resolvable(items[k][1])

\* C1: a successful on_conflict_do_nothing / on_conflict_do_update returns a
\* builder other than the receiver, with the receiver's table and the action
\* built by the call, and the receiver's post-values clause stays what it was
\* before the call; so builders derived from one base each hold their own action.
C1_GenerativeFrame ==
    /\ \A i \in Refs : Derived(i) =>
          LET o == origin[i]
          IN  /\ o.parent \in Refs \ {i}
              /\ builders[i].table = builders[o.parent].table
              /\ Clause(i) # None
              /\ Clause(i)[1].visit_name = o.op
              /\ Clause(i)[1].inferred_target_elements = o.args.index_elements
              /\ Clause(o.parent) = o.pre
    /\ (last.op # "" /\ last.raised = "") =>
          /\ last.ret = last.n + 1
          /\ last.ret # last.recv
          /\ Clause(last.recv) = last.pre

C1_Witness ==
    \E p, i, j \in Refs :
        /\ origin[i].parent = p /\ origin[i].op = "on_conflict_do_nothing"
        /\ origin[j].parent = p /\ origin[j].op = "on_conflict_do_update"

\* C2: along a chain of successful conflict calls the builder holds exactly
\* one action, and its kind, target fields, assignments and update filter are
\* those of the last call's arguments; nothing of an earlier call survives.
C2_LastCallWins ==
    \A i \in Refs : Derived(i) =>
        LET a == origin[i].args
            c == Clause(i)
        IN  /\ Len(c) = 1
            /\ c[1].visit_name = origin[i].op
            /\ c[1].constraint_target = None
            /\ c[1].inferred_target_elements = a.index_elements
            /\ c[1].inferred_target_whereclause =
                  (IF a.index_elements = None THEN None ELSE a.index_where)
            /\ IF origin[i].op = "on_conflict_do_update"
               THEN /\ DOMAIN c[1] = UpdateFields
                    /\ Len(c[1].update_values_to_set) = Len(a.set_.items)
                    /\ \A k \in 1..Len(a.set_.items) :
                          c[1].update_values_to_set[k] =
                              <<[column |-> a.set_.items[k][1].name], a.set_.items[k][2]>>
                    /\ c[1].update_whereclause = a.where
               ELSE DOMAIN c[1] = TargetFields

C2_Witness ==
    \E i \in Refs :
        /\ origin[i].op = "on_conflict_do_nothing"
        /\ origin[i].args.index_elements = None
        /\ origin[i].parent \in Refs
        /\ origin[origin[i].parent].op = "on_conflict_do_update"
        /\ origin[origin[i].parent].args.index_elements # None
        /\ origin[origin[i].parent].args.where # None

\* C3: on_conflict_do_update raises ValueError when set_ is None, an empty
\* mapping or not a mapping, whatever the other arguments, and succeeds for a
\* non-empty dict whose keys all resolve.
C3_InvalidSetRaises ==
    last.op = "on_conflict_do_update" =>
        LET s == last.args.set_
        IN  /\ (s.type \notin {"dict", "mapping"} \/ s.items = <<>>) =>
                  /\ last.raised = "ValueError"
                  /\ last.ret = 0
                  /\ Len(builders) = last.n
            /\ (s.type = "dict" /\ s.items # <<>> /\ AllResolve(s.items)) =>
                  /\ last.raised = ""
                  /\ last.ret \in Refs
                  /\ Clause(last.ret) # None
                  /\ Clause(last.ret)[1].visit_name = "on_conflict_do_update"

C3_Witness ==
    /\ last.op = "on_conflict_do_update"
    /\ last.args.set_.type = "list"
    /\ last.args.set_.items # <<>>
    /\ last.args.index_elements # None
    /\ last.args.where # None
    /\ last.raised = "ValueError"

\* C4: on_conflict_do_update accepts as set_ any non-empty mapping, a dict or
\* another kind of mapping, whose keys name columns: the call succeeds and
\* produces a Do-Update action.
C4_AnyMappingAccepted ==
    last.op = "on_conflict_do_update" =>
        LET s == last.args.set_
        IN  (s.type \in {"dict", "mapping"} /\ s.items # <<>> /\ AllResolve(s.items)) =>
                /\ last.raised = ""
                /\ last.ret \in Refs
                /\ Clause(last.ret) # None
                /\ Clause(last.ret)[1].visit_name = "on_conflict_do_update"

\* C5: after a successful on_conflict_do_update, update_values_to_set has one
\* (column, value) pair per key of set_, in the mapping's insertion order, the
\* column being the coercion of the key and the value the one supplied.
C5_AssignmentsInInsertionOrder ==
    (last.op = "on_conflict_do_update" /\ last.raised = "") =>
        LET items == last.args.set_.items
            uvs == Clause(last.ret)[1].update_values_to_set
        IN  /\ Len(uvs) = Len(items)
            /\ \A k \in 1..Len(items) :
                  /\ uvs[k][1] = [column |-> items[k][1].name]
                  /\ uvs[k][2] = items[k][2]

C5_Witness ==
    /\ last.op = "on_conflict_do_update"
    /\ last.raised = ""
    /\ Len(last.args.set_.items) = 2
    /\ last.args.set_.items[1][1] = StrKey("count")
    /\ last.args.set_.items[2][1] = StrKey("id")
    /\ last.args.set_.items[1][2] # last.args.set_.items[2][2]

\* C6: for both actions, with index_elements supplied constraint_target is
\* unset, inferred_target_elements is the supplied sequence and
\* inferred_target_whereclause the supplied index_where; with index_elements
\* omitted all three are unset, even if index_where was supplied.
C6_TargetFromIndexElements ==
    (last.op # "" /\ last.raised = "") =>
        LET a == last.args
            obj == Clause(last.ret)[1]
        IN  IF a.index_elements # None
            THEN /\ obj.constraint_target = None
                 /\ obj.inferred_target_elements = a.index_elements
                 /\ obj.inferred_target_whereclause = a.index_where
            ELSE /\ obj.constraint_target = None
                 /\ obj.inferred_target_elements = None
                 /\ obj.inferred_target_whereclause = None

C6_Witness ==
    /\ last.op = "on_conflict_do_nothing"
    /\ last.raised = ""
    /\ last.args.index_elements = None
    /\ last.args.index_where # None

\* C7 as stated: every attached action has exactly one target mode active,
\* the named constraint alone or the inferred elements without it.
C7_ExactlyOneTargetMode ==
    \A i \in Refs : Clause(i) # None =>
        LET obj == Clause(i)[1]
        IN  \/ /\ obj.constraint_target # None
               /\ obj.inferred_target_elements = None
               /\ obj.inferred_target_whereclause = None
            \/ /\ obj.inferred_target_elements # None
               /\ obj.constraint_target = None

\* C7 as amended: every attached action has at most one target mode active:
\* constraint_target is never set, and either inferred_target_elements is set
\* (inferred_target_whereclause optionally) or all three fields are unset,
\* the latter exactly when index_elements was omitted.
C7_AtMostOneTargetMode ==
    \A i \in Refs : Clause(i) # None =>
        LET obj == Clause(i)[1]
        IN  /\ obj.constraint_target = None
            /\ \/ obj.inferred_target_elements # None
               \/ /\ obj.inferred_target_elements = None
                  /\ obj.inferred_target_whereclause = None
            /\ (obj.inferred_target_elements = None)
                  <=> (origin[i].args.index_elements = None)

C7_Witness ==
    \E i, j \in Refs :
        /\ Clause(i) # None
        /\ Clause(i)[1].inferred_target_elements = None
        /\ origin[i].args.index_where # None
        /\ Clause(j) # None
        /\ Clause(j)[1].inferred_target_elements # None
        /\ Clause(j)[1].inferred_target_whereclause # None

\* C8: a failing on_conflict_do_update (invalid set_, or a key at any position
\* that does not resolve) raises to the caller, returns no builder, leaves the
\* receiver's clause as it was and the receiver usable, and no builder ever
\* holds a Do-Update action whose update_values_to_set is missing, empty or
\* shorter than the supplied mapping.
C8_FailedUpdateLeavesNoTrace ==
    /\ (last.op = "on_conflict_do_update" /\ ~AllResolve(last.args.set_.items)
            /\ last.args.set_.type = "dict") => last.raised # ""
    /\ last.raised # "" =>
          /\ last.op = "on_conflict_do_update"
          /\ last.ret = 0
          /\ Len(builders) = last.n
          /\ Clause(last.recv) = last.pre
          /\ ENABLED DoNothingCall(last.recv, NoArgs)
    /\ \A i \in Refs :
          (Clause(i) # None /\ Clause(i)[1].visit_name = "on_conflict_do_update") =>
              /\ "update_values_to_set" \in DOMAIN Clause(i)[1]
              /\ Len(Clause(i)[1].update_values_to_set) >= 1
              /\ Len(Clause(i)[1].update_values_to_set) = Len(origin[i].args.set_.items)

C8_Witness ==
    /\ last.raised = "ArgumentError"
    /\ last.pre # None
    /\ ~Resolvable(last.args.set_.items[1][1])

\* C9: when several threads read .excluded of one builder concurrently, also
\* when they race on the first access, the namespace is computed at most once
\* for that builder and every reader gets that same namespace.
C9_ComputedOnceUnderRace ==
    /\ \A b \in Refs : reads[b].computed <= 1 /\ Cardinality(reads[b].seen) <= 1
    /\ \A t1, t2 \in ThreadIds :
          (threads[t1].obj = threads[t2].obj
              /\ threads[t1].val # None /\ threads[t2].val # None) =>
                  threads[t1].val = threads[t2].val

C9_Witness ==
    \E t1, t2 \in ThreadIds :
        /\ t1 # t2
        /\ threads[t1].obj = threads[t2].obj
        /\ threads[t1].raced /\ threads[t2].raced
        /\ threads[t1].val # None /\ threads[t2].val # None

\* C10: with one caller, every read of .excluded of a builder after the first
\* returns the namespace of the first read, an alias of the builder's table
\* named "excluded"; it is built at most once per builder, whatever generative
\* calls are made on the builder between the reads.
C10_ExcludedBuiltOnce ==
    \A b \in Refs :
        /\ reads[b].computed <= 1
        /\ Cardinality(reads[b].seen) <= 1
        /\ \A ns \in reads[b].seen :
              /\ ns.name = "excluded"
              /\ ns.table = builders[b].table
              /\ builders[b].excluded = Some(ns)

C10_Witness ==
    \E b, c \in Refs :
        /\ origin[c].parent = b
        /\ origin[c].nreads = 1
        /\ reads[b].count = 2
        /\ reads[b].computed = 1

====
